---- MODULE Spec2Model ----
(***************************************************************************)
(* AllFind search orchestrator (src/src/orchestrator.py, src/src/types.py) *)
(*                                                                         *)
(* SearchOrchestrator classifies a SearchQuery (which platforms, which     *)
(* search method), calls _search_platform once per selected platform,      *)
(* concatenates the result lists, sorts them by score and truncates them    *)
(* to query.limit.                                                         *)
(*                                                                         *)
(* Text is a sequence of one-character strings, so that strip(), lower(),  *)
(* split(), the `in` substring test and the regular expressions are        *)
(* computed on characters as the Python code computes them.                *)
(***************************************************************************)
EXTENDS Integers, Sequences, FiniteSets, TLC

VARIABLES
    google_drive_retriever, \* self.google_drive_retriever
    notion_retriever,       \* self.notion_retriever
    query,                  \* the SearchQuery passed to the running call
    pc,                     \* position of the running call
    platforms,              \* local `platforms` of search / result of determine_platforms (<<>>: not assigned)
    method,                 \* local `method` of search / result of determine_search_method
    all_results,            \* local `all_results` of search
    limited_results,        \* local `limited_results` of search
    calls,                  \* _search_platform invocations of the running call, in order, with their outcome
    response,               \* the SearchResponse returned by search
    listing,                \* the running list_files_in_folder call and the Drive it reads
    all_files,              \* the list that call returned
    list_pc,                \* position of that call
    ids,                    \* Text_Chunking.ids
    documents,              \* Text_Chunking.documents
    embeddings,             \* Text_Chunking.embeddings
    metadata,               \* Text_Chunking.metadata
    drive_dir,              \* the folders under Text_Chunking.drive_dir and their files
    chunk_pc,               \* position of execute_chunking
    chunk_todo              \* files the running os.walk loop has still to visit

searchVars == <<google_drive_retriever, notion_retriever, query, pc, platforms,
                method, all_results, limited_results, calls, response>>

driveVars == <<listing, all_files, list_pc>>

chunkVars == <<ids, documents, embeddings, metadata, drive_dir, chunk_pc, chunk_todo>>

vars == <<google_drive_retriever, notion_retriever, query, pc, platforms,
          method, all_results, limited_results, calls, response,
          listing, all_files, list_pc,
          ids, documents, embeddings, metadata, drive_dir, chunk_pc, chunk_todo>>

None == "None"

(***************************************************************************)
(* types.py                                                                *)
(***************************************************************************)
GOOGLE_DRIVE == "google_drive"
NOTION == "notion"
Platform == {GOOGLE_DRIVE, NOTION}

KEYWORD == "keyword"
SEMANTIC == "semantic"
FULL_TEXT == "full_text"
METADATA == "metadata"
SearchMethod == {KEYWORD, SEMANTIC, FULL_TEXT, METADATA}

\* SearchQuery.limit when the caller does not give one
DefaultLimit == 10

(***************************************************************************)
(* Python str operations, on sequences of characters                       *)
(***************************************************************************)
\* str.isspace() / the regular expression class \s
WhiteSpace == {" ", "\t", "\n", "\r"}

UpperCase == <<"A","B","C","D","E","F","G","H","I","J","K","L","M",
               "N","O","P","Q","R","S","T","U","V","W","X","Y","Z">>
LowerCase == <<"a","b","c","d","e","f","g","h","i","j","k","l","m",
               "n","o","p","q","r","s","t","u","v","w","x","y","z">>

\* str.lower() on one character
LowerChar(c) ==
    IF \E k \in 1..26 : UpperCase[k] = c
    THEN LowerCase[CHOOSE k \in 1..26 : UpperCase[k] = c]
    ELSE c

\* str.lower()
Lower(s) == [k \in 1..Len(s) |-> LowerChar(s[k])]

\* str.strip(): drop leading and trailing whitespace
Strip(s) ==
    LET nonspace == {k \in 1..Len(s) : s[k] \notin WhiteSpace}
    IN  IF nonspace = {} THEN <<>>
        ELSE LET first == CHOOSE k \in nonspace : \A j \in nonspace : k <= j
                 last  == CHOOSE k \in nonspace : \A j \in nonspace : j <= k
             IN  SubSeq(s, first, last)

\* pat occurs in s at position k (1-based)
MatchAt(s, pat, k) ==
    /\ k >= 1
    /\ k + Len(pat) - 1 <= Len(s)
    /\ \A j \in 1..Len(pat) : s[k + j - 1] = pat[j]

\* Python `pat in s`
Contains(s, pat) == \E k \in 1..(Len(s) + 1) : MatchAt(s, pat, k)

\* str.split(): the number of maximal runs of non-whitespace characters
SplitLen(s) ==
    Cardinality({k \in 1..Len(s) :
        /\ s[k] \notin WhiteSpace
        /\ (k = 1 \/ s[k - 1] \in WhiteSpace)})

(***************************************************************************)
(* determine_search_method                                                 *)
(***************************************************************************)
\* the keys of the metadata-filter check
MetadataKeys == {"date", "author", "modified_date", "created_date", "owner"}

\* r'^\s*(what|how|why|when|where|who)'
WhWords == { <<"w","h","a","t">>, <<"h","o","w">>, <<"w","h","y">>,
             <<"w","h","e","n">>, <<"w","h","e","r","e">>, <<"w","h","o">> }

\* r'explain|describe|tell me about'
ExplainWords == { <<"e","x","p","l","a","i","n">>,
                  <<"d","e","s","c","r","i","b","e">>,
                  <<"t","e","l","l"," ","m","e"," ","a","b","o","u","t">> }

\* len(words) > 8
WordThreshold == 8

\* the wh-word pattern without re.IGNORECASE
MatchesWhPrefix_CaseSensitive(s) ==
    \E k \in 1..(Len(s) + 1) :
        /\ \A j \in 1..(k - 1) : s[j] \in WhiteSpace
        /\ \E w \in WhWords : MatchAt(s, w, k)

\* re.search(r'^\s*(what|how|why|when|where|who)', s, re.IGNORECASE)
MatchesWhPrefix(s) ==
    \E k \in 1..(Len(s) + 1) :
        /\ \A j \in 1..(k - 1) : s[j] \in WhiteSpace
        /\ \E w \in WhWords : MatchAt(Lower(s), w, k)

\* re.search(r'\?$', s): `$` matches at the end and before a final newline
MatchesQuestionEnd(s) ==
    \/ Len(s) >= 1 /\ s[Len(s)] = "?"
    \/ Len(s) >= 2 /\ s[Len(s)] = "\n" /\ s[Len(s) - 1] = "?"

\* re.search(r'explain|describe|tell me about', s, re.IGNORECASE)
MatchesExplain(s) == \E w \in ExplainWords : Contains(Lower(s), w)

\* any(re.search(pattern, query_text, re.IGNORECASE) for pattern in question_patterns)
MatchesQuestionPattern(s) ==
    MatchesWhPrefix(s) \/ MatchesQuestionEnd(s) \/ MatchesExplain(s)

\* query.filters and any(key in query.filters for key in [...])
HasMetadataFilter(q) ==
    /\ q.filters.given
    /\ q.filters.keys # {}
    /\ \E key \in MetadataKeys : key \in q.filters.keys

\* the metadata-filter check ahead of the quote check
determine_search_method_FiltersFirst(q) ==
    IF q.method # None THEN q.method
    ELSE LET query_text == Strip(q.query)
         IN  IF HasMetadataFilter(q) THEN METADATA
             ELSE IF Contains(query_text, <<"\"">>) \/ Contains(query_text, <<"'">>)
             THEN FULL_TEXT
             ELSE IF MatchesQuestionPattern(query_text) THEN SEMANTIC
             ELSE IF SplitLen(query_text) > WordThreshold THEN SEMANTIC
             ELSE KEYWORD

\* the quote check ahead of the explicit method
determine_search_method_QuoteFirst(q) ==
    LET query_text == Strip(q.query)
    IN  IF Contains(query_text, <<"\"">>) \/ Contains(query_text, <<"'">>)
        THEN FULL_TEXT
        ELSE IF q.method # None THEN q.method
        ELSE IF HasMetadataFilter(q) THEN METADATA
        ELSE IF MatchesQuestionPattern(query_text) THEN SEMANTIC
        ELSE IF SplitLen(query_text) > WordThreshold THEN SEMANTIC
        ELSE KEYWORD

\* the question and length checks ahead of the metadata-filter check
determine_search_method_QuestionFirst(q) ==
    IF q.method # None THEN q.method
    ELSE LET query_text == Strip(q.query)
         IN  IF Contains(query_text, <<"\"">>) \/ Contains(query_text, <<"'">>)
             THEN FULL_TEXT
             ELSE IF MatchesQuestionPattern(query_text) THEN SEMANTIC
             ELSE IF SplitLen(query_text) > WordThreshold THEN SEMANTIC
             ELSE IF HasMetadataFilter(q) THEN METADATA
             ELSE KEYWORD

\* determine_search_method: the first matching rule decides
determine_search_method(q) ==
    IF q.method # None THEN q.method
    ELSE LET query_text == Strip(q.query)
         IN  IF Contains(query_text, <<"\"">>) \/ Contains(query_text, <<"'">>)
             THEN FULL_TEXT
             ELSE IF HasMetadataFilter(q) THEN METADATA
             ELSE IF MatchesQuestionPattern(query_text) THEN SEMANTIC
             ELSE IF SplitLen(query_text) > WordThreshold THEN SEMANTIC
             ELSE KEYWORD

(***************************************************************************)
(* determine_platforms                                                     *)
(***************************************************************************)
google_keywords == { <<"d","r","i","v","e">>, <<"d","o","c","s">>,
                     <<"s","h","e","e","t","s">>, <<"s","l","i","d","e","s">>,
                     <<"d","o","c","u","m","e","n","t">> }
notion_keywords == { <<"n","o","t","i","o","n">>, <<"p","a","g","e">>,
                     <<"d","a","t","a","b","a","s","e">>,
                     <<"w","o","r","k","s","p","a","c","e">> }

\* the keyword hints ahead of the explicit platform
determine_platforms_HintsFirst(q) ==
    LET query_lower == Lower(q.query)
        has_google_hint == \E keyword \in google_keywords : Contains(query_lower, keyword)
        has_notion_hint == \E keyword \in notion_keywords : Contains(query_lower, keyword)
    IN  IF has_google_hint /\ ~has_notion_hint THEN <<GOOGLE_DRIVE>>
        ELSE IF has_notion_hint /\ ~has_google_hint THEN <<NOTION>>
        ELSE IF q.platform # None THEN <<q.platform>>
        ELSE <<GOOGLE_DRIVE, NOTION>>

\* the keywords looked up in the text as typed, without lower()
determine_platforms_CaseSensitive(q) ==
    IF q.platform # None THEN <<q.platform>>
    ELSE LET has_google_hint == \E keyword \in google_keywords : Contains(q.query, keyword)
             has_notion_hint == \E keyword \in notion_keywords : Contains(q.query, keyword)
         IN  IF has_google_hint /\ ~has_notion_hint THEN <<GOOGLE_DRIVE>>
             ELSE IF has_notion_hint /\ ~has_google_hint THEN <<NOTION>>
             ELSE <<GOOGLE_DRIVE, NOTION>>

\* no else branch: `platforms` stays [] when the hints do not single out a
\* platform
determine_platforms_NoElse(q) ==
    IF q.platform # None THEN <<q.platform>>
    ELSE LET query_lower == Lower(q.query)
             has_google_hint == \E keyword \in google_keywords : Contains(query_lower, keyword)
             has_notion_hint == \E keyword \in notion_keywords : Contains(query_lower, keyword)
         IN  IF has_google_hint /\ ~has_notion_hint THEN <<GOOGLE_DRIVE>>
             ELSE IF has_notion_hint /\ ~has_google_hint THEN <<NOTION>>
             ELSE <<>>

\* determine_platforms: the explicit platform, else the hinted one, else all
determine_platforms(q) ==
    IF q.platform # None THEN <<q.platform>>
    ELSE LET query_lower == Lower(q.query)
             has_google_hint == \E keyword \in google_keywords : Contains(query_lower, keyword)
             has_notion_hint == \E keyword \in notion_keywords : Contains(query_lower, keyword)
         IN  IF has_google_hint /\ ~has_notion_hint THEN <<GOOGLE_DRIVE>>
             ELSE IF has_notion_hint /\ ~has_google_hint THEN <<NOTION>>
             ELSE <<GOOGLE_DRIVE, NOTION>>

(***************************************************************************)
(* search and _search_platform                                             *)
(***************************************************************************)
\* a retriever call that raises (network, auth, quota)
RetrieverError == [raised |-> TRUE, results |-> <<>>]

\* a call that returns the list l
Returned(l) == [raised |-> FALSE, results |-> l]

\* the SearchResult objects a platform's retriever produced for a reply of
\* scores: the k-th result of platform p is identified by <<p, k>>
ResultsOf(p, reply) ==
    [k \in 1..Len(reply) |-> [id |-> <<p, k>>, platform |-> p, score |-> reply[k]]]

\* _search_google_drive: forwards to the drive retriever, whose reply is a
\* list of results or a raised error
_search_google_drive(reply) ==
    IF reply.raised THEN RetrieverError ELSE Returned(ResultsOf(GOOGLE_DRIVE, reply.scores))

\* _search_notion: forwards to the notion retriever
_search_notion(reply) ==
    IF reply.raised THEN RetrieverError ELSE Returned(ResultsOf(NOTION, reply.scores))

\* _search_platform without the `if not self.<retriever>` guards: the call on
\* a retriever that is None raises
_search_platform_NoGuard(platform, reply) ==
    IF platform = GOOGLE_DRIVE
    THEN IF google_drive_retriever = None THEN RetrieverError
         ELSE _search_google_drive(reply)
    ELSE IF platform = NOTION
    THEN IF notion_retriever = None THEN RetrieverError
         ELSE _search_notion(reply)
    ELSE Returned(<<>>)

\* _search_platform: an unconfigured retriever yields [] without a call
_search_platform(platform, reply) ==
    IF platform = GOOGLE_DRIVE
    THEN IF google_drive_retriever = None THEN Returned(<<>>)
         ELSE _search_google_drive(reply)
    ELSE IF platform = NOTION
    THEN IF notion_retriever = None THEN Returned(<<>>)
         ELSE _search_notion(reply)
    ELSE Returned(<<>>)

\* a sort that puts x before the elements of equal score
RECURSIVE InsertByScore_TiesFirst(_, _)
InsertByScore_TiesFirst(sorted, x) ==
    IF sorted = <<>> THEN <<x>>
    ELSE IF Head(sorted).score > x.score
         THEN <<Head(sorted)>> \o InsertByScore_TiesFirst(Tail(sorted), x)
         ELSE <<x>> \o sorted

\* list.sort() is stable: x goes after every element that does not sort
\* strictly after it; with reverse=True the key order is descending and the
\* original order of equal keys is kept
RECURSIVE InsertByScore(_, _)
InsertByScore(sorted, x) ==
    IF sorted = <<>> THEN <<x>>
    ELSE IF Head(sorted).score >= x.score
         THEN <<Head(sorted)>> \o InsertByScore(Tail(sorted), x)
         ELSE <<x>> \o sorted

\* all_results.sort(key=lambda x: x.score, reverse=True)
RECURSIVE SortByScore(_)
SortByScore(l) ==
    IF l = <<>> THEN <<>>
    ELSE InsertByScore(SortByScore(SubSeq(l, 1, Len(l) - 1)), l[Len(l)])

\* l[:n] of a Python list: a negative n counts from the end
SliceTo(l, n) ==
    IF n >= 0
    THEN SubSeq(l, 1, IF n < Len(l) THEN n ELSE Len(l))
    ELSE SubSeq(l, 1, IF Len(l) + n > 0 THEN Len(l) + n ELSE 0)

(***************************************************************************)
(* Inputs                                                                  *)
(***************************************************************************)
MaxPieces == 2     \* pieces concatenated into a classified query text
MaxResults == 2    \* results one retriever returns
MaxScore == 1      \* scores are 0..MaxScore
MaxLimit == 2      \* largest query.limit of a search

\* fragments of query text
Pieces == { <<" ">>, <<"'">>, <<"\"">>, <<"?">>,
            <<"W","h","a","t">>,
            <<"w","h","o","l","e">>,
            <<"e","x","p","l","a","i","n">>,
            <<"D","e","s","c","r","i","b","e">>,
            <<"t","e","l","l"," ","m","e"," ","a","b","o","u","t">>,
            <<"b","u","d","g","e","t">> }

\* k further one-letter words
RECURSIVE Fill(_)
Fill(k) == IF k = 0 THEN <<>> ELSE <<" ", "x">> \o Fill(k - 1)

\* the concatenations of n pieces
RECURSIVE PieceTexts(_)
PieceTexts(n) ==
    IF n = 0 THEN {<<>>}
    ELSE {t \o p : t \in PieceTexts(n - 1), p \in Pieces}

\* query texts of the classifier: up to MaxPieces pieces, then no further
\* words or enough of them to reach the word threshold
Texts ==
    {t \o Fill(k) : t \in UNION {PieceTexts(n) : n \in 0..MaxPieces},
                    k \in {0, WordThreshold - 1, WordThreshold}}

\* fragments of query text for the platform hints
PlatformPieces == { <<" ">>,
                    <<"D","r","i","v","e">>, <<"d","o","c","s">>,
                    <<"S","h","e","e","t","s">>, <<"s","l","i","d","e","s">>,
                    <<"d","o","c","u","m","e","n","t">>,
                    <<"N","o","t","i","o","n">>, <<"p","a","g","e">>,
                    <<"d","a","t","a","b","a","s","e">>,
                    <<"w","o","r","k","s","p","a","c","e">>,
                    <<"b","u","d","g","e","t">> }

\* the concatenations of n platform pieces
RECURSIVE PlatformPieceTexts(_)
PlatformPieceTexts(n) ==
    IF n = 0 THEN {<<>>}
    ELSE {t \o p : t \in PlatformPieceTexts(n - 1), p \in PlatformPieces}

PlatformTexts == UNION {PlatformPieceTexts(n) : n \in 0..MaxPieces}

\* SearchQuery.filters: None, or a dict with these keys
NoFilters == [given |-> FALSE, keys |-> {}]
Filters ==
    {NoFilters}
    \cup {[given |-> TRUE, keys |-> ks] :
            ks \in {{}, {"tag"}, {"tag", "owner"}} \cup {{key} : key \in MetadataKeys}}

MethodQueries ==
    [query : Texts, platform : {None, NOTION},
     method : SearchMethod \cup {None}, filters : Filters, limit : {DefaultLimit}]

PlatformQueries ==
    [query : PlatformTexts, platform : Platform \cup {None},
     method : {None, FULL_TEXT}, filters : {NoFilters}, limit : {DefaultLimit}]

\* query texts of a search: empty, no hint, a drive hint, a notion hint
SearchTexts == { <<>>,
                 <<"b","u","d","g","e","t">>,
                 <<"m","y"," ","d","o","c","s">>,
                 <<"a"," ","p","a","g","e","?">> }

SearchQueries ==
    [query : SearchTexts, platform : Platform \cup {None},
     method : {None, KEYWORD}, filters : {NoFilters},
     limit : {-1, 0} \cup 1..MaxLimit]

\* what a configured retriever answers: a list of scores, or it raises
RetrieverReplies ==
    {[raised |-> FALSE, scores |-> l] :
        l \in UNION {[1..n -> 0..MaxScore] : n \in 0..MaxResults}}
    \cup {[raised |-> TRUE, scores |-> <<>>]}

\* the values of `query` and `response` while there is none
NoQuery == [query |-> <<>>, platform |-> None, method |-> None,
            filters |-> NoFilters, limit |-> DefaultLimit]
NoResponse == [results |-> <<>>, query |-> NoQuery, total_results |-> 0,
               platforms_searched |-> <<>>, method_used |-> None]

\* the value of `listing` while no list_files_in_folder call is running
NoListing == [folder_id |-> None, recursive |-> FALSE, file_types |-> <<>>,
              typed |-> FALSE, failing |-> {}]

\* the value of `drive_dir` while no Text_Chunking object exists
NoDriveDir == [presentations |-> [is_dir |-> FALSE, files |-> <<>>],
               docs |-> [is_dir |-> FALSE, files |-> <<>>]]

\* no Text_Chunking object exists
NoChunking ==
    /\ ids = <<>>
    /\ documents = <<>>
    /\ embeddings = <<>>
    /\ metadata = <<>>
    /\ drive_dir = NoDriveDir
    /\ chunk_pc = "Idle"
    /\ chunk_todo = <<>>

(***************************************************************************)
(* SearchOrchestrator                                                      *)
(***************************************************************************)
\* __init__: both retrievers are None; no call is running
Init ==
    /\ google_drive_retriever = None
    /\ notion_retriever = None
    /\ query = NoQuery
    /\ pc = "Idle"
    /\ platforms = <<>>
    /\ method = None
    /\ all_results = <<>>
    /\ limited_results = <<>>
    /\ calls = <<>>
    /\ response = NoResponse
    /\ listing = NoListing
    /\ all_files = <<>>
    /\ list_pc = "Idle"
    /\ NoChunking

\* a retriever is installed on the orchestrator before it is used
ConfigureRetriever(p) ==
    /\ pc = "Idle"
    /\ IF p = GOOGLE_DRIVE
       THEN /\ google_drive_retriever = None
            /\ google_drive_retriever' = "retriever"
            /\ UNCHANGED notion_retriever
       ELSE /\ notion_retriever = None
            /\ notion_retriever' = "retriever"
            /\ UNCHANGED google_drive_retriever
    /\ UNCHANGED <<query, pc, platforms, method, all_results, limited_results,
                   calls, response>>
    /\ UNCHANGED <<driveVars, chunkVars>>

\* a caller invokes search(q); the previous call, if any, is over
Search(q) ==
    /\ pc \in {"Idle", "Returned", "Raised"}
    /\ query' = q
    /\ pc' = "Received"
    /\ platforms' = <<>>
    /\ method' = None
    /\ all_results' = <<>>
    /\ limited_results' = <<>>
    /\ calls' = <<>>
    /\ response' = NoResponse
    /\ UNCHANGED <<google_drive_retriever, notion_retriever>>
    /\ UNCHANGED <<driveVars, chunkVars>>

\* search, lines 116-119: determine_platforms, then determine_search_method
Classify ==
    /\ pc = "Received"
    /\ platforms' = determine_platforms(query)
    /\ method' = determine_search_method(query)
    /\ pc' = "Classified"
    /\ UNCHANGED <<google_drive_retriever, notion_retriever, query, all_results,
                   limited_results, calls, response>>
    /\ UNCHANGED <<driveVars, chunkVars>>

\* the call in flight, if any, is the last one made
CallPending == calls # <<>> /\ ~calls[Len(calls)].done

\* the call passes query.method, not the resolved method
SearchPlatform_RawMethod ==
    /\ pc \in {"Classified", "Dispatched"}
    /\ Len(calls) < Len(platforms)
    /\ ~CallPending
    /\ calls' = Append(calls, [platform |-> platforms[Len(calls) + 1],
                               query |-> query, method |-> query.method,
                               done |-> FALSE, raised |-> FALSE, results |-> <<>>])
    /\ pc' = "Dispatched"
    /\ UNCHANGED <<google_drive_retriever, notion_retriever, query, platforms,
                   method, all_results, limited_results, response>>
    /\ UNCHANGED <<driveVars, chunkVars>>

\* search, lines 124-129: the next iteration of `for platform in platforms`
\* calls _search_platform(query, platform, method)
SearchPlatform ==
    /\ pc \in {"Classified", "Dispatched"}
    /\ Len(calls) < Len(platforms)
    /\ ~CallPending
    /\ calls' = Append(calls, [platform |-> platforms[Len(calls) + 1],
                               query |-> query, method |-> method,
                               done |-> FALSE, raised |-> FALSE, results |-> <<>>])
    /\ pc' = "Dispatched"
    /\ UNCHANGED <<google_drive_retriever, notion_retriever, query, platforms,
                   method, all_results, limited_results, response>>
    /\ UNCHANGED <<driveVars, chunkVars>>

\* search, lines 125-130: _search_platform returns and all_results.extend
\* takes its list; an exception of _search_platform is not caught and
\* leaves search
ExtendResults ==
    /\ pc = "Dispatched"
    /\ CallPending
    /\ \E reply \in RetrieverReplies :
         LET platform_results == _search_platform(calls[Len(calls)].platform, reply)
         IN  /\ calls' = [calls EXCEPT ![Len(calls)] =
                            [@ EXCEPT !.done = TRUE,
                                      !.raised = platform_results.raised,
                                      !.results = platform_results.results]]
             /\ IF platform_results.raised
                THEN /\ pc' = "Raised"
                     /\ UNCHANGED all_results
                ELSE /\ pc' = "Dispatched"
                     /\ all_results' = all_results \o platform_results.results
    /\ UNCHANGED <<google_drive_retriever, notion_retriever, query, platforms,
                   method, limited_results, response>>
    /\ UNCHANGED <<driveVars, chunkVars>>

\* the sort and slice run without waiting for the platform calls
Aggregate_Early ==
    /\ pc \in {"Classified", "Dispatched"}
    /\ all_results' = SortByScore(all_results)
    /\ limited_results' = SliceTo(all_results', query.limit)
    /\ pc' = "Aggregated"
    /\ UNCHANGED <<google_drive_retriever, notion_retriever, query, platforms,
                   method, calls, response>>
    /\ UNCHANGED <<driveVars, chunkVars>>

\* search, lines 133-134: after the loop, sort by score descending and keep
\* the first `limit`
Aggregate ==
    /\ pc \in {"Classified", "Dispatched"}
    /\ Len(calls) = Len(platforms)
    /\ ~CallPending
    /\ all_results' = SortByScore(all_results)
    /\ limited_results' = SliceTo(all_results', query.limit)
    /\ pc' = "Aggregated"
    /\ UNCHANGED <<google_drive_retriever, notion_retriever, query, platforms,
                   method, calls, response>>
    /\ UNCHANGED <<driveVars, chunkVars>>

\* a response whose total_results counts the truncated page
Return_PageTotal ==
    /\ pc = "Aggregated"
    /\ response' = [results |-> limited_results,
                    query |-> query,
                    total_results |-> Len(limited_results),
                    platforms_searched |-> platforms,
                    method_used |-> method]
    /\ pc' = "Returned"
    /\ UNCHANGED <<google_drive_retriever, notion_retriever, query, platforms,
                   method, all_results, limited_results, calls>>
    /\ UNCHANGED <<driveVars, chunkVars>>

\* a response that reports query.method (KEYWORD when there is none)
Return_QueryMethod ==
    /\ pc = "Aggregated"
    /\ response' = [results |-> limited_results,
                    query |-> query,
                    total_results |-> Len(all_results),
                    platforms_searched |-> platforms,
                    method_used |-> IF query.method # None THEN query.method
                                    ELSE KEYWORD]
    /\ pc' = "Returned"
    /\ UNCHANGED <<google_drive_retriever, notion_retriever, query, platforms,
                   method, all_results, limited_results, calls>>
    /\ UNCHANGED <<driveVars, chunkVars>>

\* search, lines 136-142: the SearchResponse
Return ==
    /\ pc = "Aggregated"
    /\ response' = [results |-> limited_results,
                    query |-> query,
                    total_results |-> Len(all_results),
                    platforms_searched |-> platforms,
                    method_used |-> method]
    /\ pc' = "Returned"
    /\ UNCHANGED <<google_drive_retriever, notion_retriever, query, platforms,
                   method, all_results, limited_results, calls>>
    /\ UNCHANGED <<driveVars, chunkVars>>

Next ==
    \/ \E p \in Platform : ConfigureRetriever(p)
    \/ \E q \in SearchQueries : Search(q)
    \/ Classify
    \/ SearchPlatform
    \/ ExtendResults
    \/ Aggregate
    \/ Return

Spec == Init /\ [][Next]_vars

\* _search_platform returns at once for a platform whose retriever is None
LocalReturn ==
    /\ CallPending
    /\ (IF calls[Len(calls)].platform = GOOGLE_DRIVE
        THEN google_drive_retriever = None
        ELSE notion_retriever = None)
    /\ ExtendResults

\* the statements of search run to completion; the reply of a configured
\* retriever is awaited without a deadline
FairSpec ==
    /\ Spec
    /\ WF_vars(Classify)
    /\ WF_vars(SearchPlatform)
    /\ WF_vars(LocalReturn)
    /\ WF_vars(Aggregate)
    /\ WF_vars(Return)

(***************************************************************************)
(* determine_search_method on its own, applied to a query                  *)
(***************************************************************************)
MethodInit ==
    /\ google_drive_retriever = None
    /\ notion_retriever = None
    /\ query \in MethodQueries
    /\ pc = "Received"
    /\ platforms = <<>>
    /\ method = None
    /\ all_results = <<>>
    /\ limited_results = <<>>
    /\ calls = <<>>
    /\ response = NoResponse
    /\ listing = NoListing
    /\ all_files = <<>>
    /\ list_pc = "Idle"
    /\ NoChunking

DetermineSearchMethod ==
    /\ pc = "Received"
    /\ method = None
    /\ method' = determine_search_method(query)
    /\ UNCHANGED <<google_drive_retriever, notion_retriever, query, pc, platforms,
                   all_results, limited_results, calls, response>>
    /\ UNCHANGED <<driveVars, chunkVars>>

MethodSpec == MethodInit /\ [][DetermineSearchMethod]_vars

(***************************************************************************)
(* determine_platforms on its own, applied to a query                      *)
(***************************************************************************)
PlatformInit ==
    /\ google_drive_retriever = None
    /\ notion_retriever = None
    /\ query \in PlatformQueries
    /\ pc = "Received"
    /\ platforms = <<>>
    /\ method = None
    /\ all_results = <<>>
    /\ limited_results = <<>>
    /\ calls = <<>>
    /\ response = NoResponse
    /\ listing = NoListing
    /\ all_files = <<>>
    /\ list_pc = "Idle"
    /\ NoChunking

\* determine_platforms(query) returns: pc "Classified" marks `platforms` as set
DeterminePlatforms ==
    /\ pc = "Received"
    /\ platforms' = determine_platforms(query)
    /\ pc' = "Classified"
    /\ UNCHANGED <<google_drive_retriever, notion_retriever, query, method,
                   all_results, limited_results, calls, response>>
    /\ UNCHANGED <<driveVars, chunkVars>>

PlatformSpec == PlatformInit /\ [][DeterminePlatforms]_vars

(***************************************************************************)
(* GoogleDriveConnector.list_files_in_folder                               *)
(* (src/src/google_drive_connector.py)                                     *)
(***************************************************************************)
FOLDER_MIME == "application/vnd.google-apps.folder"
PDF_MIME == "application/pdf"
DOC_MIME == "application/vnd.google-apps.document"

\* the files of the Drive, in the order files().list reports them: folder R
\* holds a.pdf, b (a document) and folder S; S holds c.pdf and folder T; T
\* holds d.pdf and e (a document)
Drive ==
    << [id |-> "a", mimeType |-> PDF_MIME, parent |-> "R"],
       [id |-> "S", mimeType |-> FOLDER_MIME, parent |-> "R"],
       [id |-> "b", mimeType |-> DOC_MIME, parent |-> "R"],
       [id |-> "c", mimeType |-> PDF_MIME, parent |-> "S"],
       [id |-> "T", mimeType |-> FOLDER_MIME, parent |-> "S"],
       [id |-> "d", mimeType |-> PDF_MIME, parent |-> "T"],
       [id |-> "e", mimeType |-> DOC_MIME, parent |-> "T"],
       [id |-> "R", mimeType |-> FOLDER_MIME, parent |-> None] >>

FolderIds == {"R", "S", "T"}

\* the elements of a sequence
Range(l) == {l[k] : k \in 1..Len(l)}

\* the files the query of service.files().list(q=query) selects, all pages
\* together: the children of folder_id (every file when there is no
\* folder_id), restricted to file_types when that list is given and not empty
FilesList(folder_id, file_types) ==
    LET InFolder(f) == folder_id = None \/ f.parent = folder_id
        OfType(f) == file_types = <<>> \/ f.mimeType \in Range(file_types)
    IN  SelectSeq(Drive, LAMBDA f : InFolder(f) /\ OfType(f))

\* list_files_in_folder(folder_id, recursive, file_types); `failing` are the
\* folders whose files().list(...).execute() raises HttpError, which the
\* call that listed the folder answers with []
RECURSIVE list_files_in_folder(_, _, _, _)
RECURSIVE SubfolderFiles(_, _, _)
list_files_in_folder(folder_id, recursive, file_types, failing) ==
    IF folder_id \in failing THEN <<>>
    ELSE LET files == FilesList(folder_id, file_types)
             folders == SelectSeq(files, LAMBDA f : f.mimeType = FOLDER_MIME)
         IN  IF recursive
             THEN files \o SubfolderFiles(folders, file_types, failing)
             ELSE files

\* for folder in folders: all_files.extend(self.list_files_in_folder(...))
SubfolderFiles(folders, file_types, failing) ==
    IF folders = <<>> THEN <<>>
    ELSE list_files_in_folder(Head(folders).id, TRUE, file_types, failing)
         \o SubfolderFiles(Tail(folders), file_types, failing)

\* the calls of list_files_in_folder: `typed` is FALSE for file_types=None
Listings ==
    [folder_id : FolderIds \cup {None},
     recursive : BOOLEAN,
     file_types : {<<>>, <<PDF_MIME>>, <<DOC_MIME>>, <<PDF_MIME, FOLDER_MIME>>},
     typed : {TRUE},
     failing : SUBSET FolderIds]
    \cup
    [folder_id : FolderIds \cup {None},
     recursive : BOOLEAN,
     file_types : {<<>>},
     typed : {FALSE},
     failing : SUBSET FolderIds]

\* a caller has invoked list_files_in_folder
DriveInit ==
    /\ google_drive_retriever = None
    /\ notion_retriever = None
    /\ query = NoQuery
    /\ pc = "Idle"
    /\ platforms = <<>>
    /\ method = None
    /\ all_results = <<>>
    /\ limited_results = <<>>
    /\ calls = <<>>
    /\ response = NoResponse
    /\ listing \in Listings
    /\ all_files = <<>>
    /\ list_pc = "Called"
    /\ NoChunking

\* list_files_in_folder returns all_files
ListFilesInFolder ==
    /\ list_pc = "Called"
    /\ all_files' = list_files_in_folder(listing.folder_id, listing.recursive,
                                         listing.file_types, listing.failing)
    /\ list_pc' = "Returned"
    /\ UNCHANGED listing
    /\ UNCHANGED <<searchVars, chunkVars>>

DriveSpec == DriveInit /\ [][ListFilesInFolder]_vars

(***************************************************************************)
(* Text_Chunking (src/src/chunking.py)                                     *)
(***************************************************************************)
\* the elements of s whose position is in keep, in order
RECURSIVE KeepFrom(_, _, _)
KeepFrom(s, keep, k) ==
    IF k > Len(s) THEN <<>>
    ELSE (IF k \in keep THEN <<s[k]>> ELSE <<>>) \o KeepFrom(s, keep, k + 1)

\* re.sub(r"\n{3,}", "\n\n", text): a run of three or more newlines keeps two
CollapseNewlines(s) ==
    KeepFrom(s, {k \in 1..Len(s) :
                    ~(/\ s[k] = "\n"
                      /\ k >= 3
                      /\ s[k - 1] = "\n"
                      /\ s[k - 2] = "\n")}, 1)

\* re.sub(r"[ \t]+\n", "\n", text): spaces and tabs that run up to a newline go
StripBeforeNewline(s) ==
    KeepFrom(s, {k \in 1..Len(s) :
                    ~(\E j \in (k + 1)..Len(s) :
                        /\ s[j] = "\n"
                        /\ \A m \in k..(j - 1) : s[m] \in {" ", "\t"})}, 1)

\* Text_Chunking.normalize
normalize(text) == Strip(StripBeforeNewline(CollapseNewlines(text)))

Digits == <<"0", "1", "2", "3", "4", "5", "6", "7", "8", "9">>

\* str(i) of a natural number, as f"{path}:{i}" formats the index
RECURSIVE Str(_)
Str(i) == IF i < 10 THEN <<Digits[i + 1]>>
          ELSE Str(i \div 10) \o <<Digits[(i % 10) + 1]>>

MarkerPrefix == <<"=", "=", "=", " ", "S", "l", "i", "d", "e", " ">>
MarkerSuffix == <<" ", "=", "=", "=">>

\* the number of digits (\d) of s from position k on
RECURSIVE DigitsAt(_, _)
DigitsAt(s, k) ==
    IF k <= Len(s) /\ (\E d \in 1..10 : Digits[d] = s[k])
    THEN 1 + DigitsAt(s, k + 1)
    ELSE 0

\* the length of the match of r"=== Slide \d+ ===" at position k of s, 0 when
\* there is none
MarkerLenAt(s, k) ==
    IF MatchAt(s, MarkerPrefix, k)
    THEN LET d == DigitsAt(s, k + Len(MarkerPrefix))
         IN  IF d >= 1 /\ MatchAt(s, MarkerSuffix, k + Len(MarkerPrefix) + d)
             THEN Len(MarkerPrefix) + d + Len(MarkerSuffix)
             ELSE 0
    ELSE 0

\* re.split(r"=== Slide \d+ ===", text): the pieces between the matches, from
\* position k on, the current piece having begun at position start
RECURSIVE SplitFrom(_, _, _)
SplitFrom(s, k, start) ==
    IF k > Len(s) THEN <<SubSeq(s, start, Len(s))>>
    ELSE IF MarkerLenAt(s, k) > 0
         THEN <<SubSeq(s, start, k - 1)>>
              \o SplitFrom(s, k + MarkerLenAt(s, k), k + MarkerLenAt(s, k))
         ELSE SplitFrom(s, k + 1, start)

ReSplit(s) == SplitFrom(s, 1, 1)

\* the call get_embedding(*args) of the module-level function
\* get_embedding(self, text): a call that does not bind both parameters raises
\* TypeError; otherwise the tokenizer and the model run, and either raise
\* (loaded = FALSE) or give the embedding of the text
get_embedding(args, loaded) ==
    IF Len(args) # 2 THEN [raised |-> TRUE, value |-> <<>>]
    ELSE IF ~loaded THEN [raised |-> TRUE, value |-> <<>>]
    ELSE [raised |-> FALSE, value |-> args[2]]

\* a str and a list held in Text_Chunking.documents
StrValue(text) == [type |-> "str", str |-> text, list |-> <<>>]
ListValue(l) == [type |-> "list", str |-> <<>>, list |-> l]

\* the four lists of a Text_Chunking object
Lists == [ids |-> ids, documents |-> documents,
          embeddings |-> embeddings, metadata |-> metadata]

\* process_slides from section i on (i counts from 1, enumerate from 0); L
\* are the four lists so far; an exception ends the loop where it is raised
RECURSIVE process_slides_from(_, _, _, _, _, _)
process_slides_from(L, slide_sections, i, path, filename, loaded) ==
    IF i > Len(slide_sections) THEN L
    ELSE LET section == Strip(slide_sections[i])
         IN  IF section = <<>>
             THEN process_slides_from(L, slide_sections, i + 1, path, filename, loaded)
             ELSE LET appended == [L EXCEPT
                          !.ids = Append(@, path \o <<":">> \o Str(i - 1)),
                          !.documents = Append(@, StrValue(section))]
                      e == get_embedding(<<section>>, loaded)
                  IN  IF e.raised THEN appended
                      ELSE process_slides_from(
                               [appended EXCEPT
                                   !.embeddings = Append(@, e.value),
                                   !.metadata = Append(@,
                                       [file_path |-> path,
                                        chunk_index |-> i - 1,
                                        chunk_total |-> Len(slide_sections),
                                        filename |-> filename])],
                               slide_sections, i + 1, path, filename, loaded)

process_slides(L, text, path, filename, loaded) ==
    process_slides_from(L, ReSplit(text), 1, path, filename, loaded)

\* process_docs from chunk i on; text_chunks is what splitter.split_text(text)
\* returned
RECURSIVE process_docs_from(_, _, _, _, _, _)
process_docs_from(L, text_chunks, i, path, filename, loaded) ==
    IF i > Len(text_chunks) THEN L
    ELSE LET appended == [L EXCEPT
                 !.ids = Append(@, path \o <<":">> \o Str(i - 1)),
                 !.documents = Append(@, ListValue(text_chunks))]
             e == get_embedding(<<text_chunks[i]>>, loaded)
         IN  IF e.raised THEN appended
             ELSE process_docs_from(
                      [appended EXCEPT
                          !.embeddings = Append(@, e.value),
                          !.metadata = Append(@,
                              [file_path |-> path,
                               chunk_index |-> i - 1,
                               chunk_total |-> Len(text_chunks),
                               filename |-> filename])],
                      text_chunks, i + 1, path, filename, loaded)

\* name.lower().endswith(".txt")
EndsWithTxt(name) ==
    MatchAt(Lower(name), <<".", "t", "x", "t">>, Len(name) - 3)

MaxFiles == 2      \* files in each of the two folders

\* the texts of the slide files: one slide without a marker; an empty piece
\* before the first marker and two slides; a marker without a number, which
\* is no marker; a marker followed by blank text only; text that normalize
\* changes
SlideTexts ==
    { <<"a">>,
      MarkerPrefix \o <<"1">> \o MarkerSuffix \o <<"a">>
          \o MarkerPrefix \o <<"1", "2">> \o MarkerSuffix \o <<"b">>,
      <<"=", "=", "=", " ", "S", "l", "i", "d", "e", " ", "=", "=", "=", "a">>,
      MarkerPrefix \o <<"1">> \o MarkerSuffix \o <<" ">>,
      <<"a", " ", "\n", "\n", "\n", "\n", "b", "\n">> }

\* the lists splitter.split_text returns for the document files
DocSplits == { <<>>, << <<"x">> >>, << <<"x">>, <<"y">> >> }

\* root_path / name
PathOf(subdir, name) == <<"/", Head(subdir), "/">> \o name

\* the k-th file name of a folder, with the given extension
NameOf(k, ext) == <<LowerCase[k]>> \o ext

TxtExt(k) == IF k % 2 = 1 THEN <<".", "t", "x", "t">> ELSE <<".", "T", "X", "T">>
PdfExt == <<".", "p", "d", "f">>

File(subdir, name, readable, text, text_chunks) ==
    [name |-> name, path |-> PathOf(subdir, name), readable |-> readable,
     text |-> text, text_chunks |-> text_chunks]

\* what the k-th file of a folder can be: a readable .txt file, a .txt file
\* whose read_text raises, a file that is not .txt
Files(subdir, k) ==
    (IF subdir = <<"p">>
     THEN {File(subdir, NameOf(k, TxtExt(k)), TRUE, t, <<>>) : t \in SlideTexts}
     ELSE {File(subdir, NameOf(k, TxtExt(k)), TRUE, <<"x">>, c) : c \in DocSplits})
    \cup {File(subdir, NameOf(k, TxtExt(k)), FALSE, <<>>, <<>>),
          File(subdir, NameOf(k, PdfExt), TRUE, <<"a">>, << <<"a">> >>)}

RECURSIVE FileLists(_, _)
FileLists(subdir, n) ==
    IF n = 0 THEN {<<>>}
    ELSE {Append(l, f) : l \in FileLists(subdir, n - 1), f \in Files(subdir, n)}

\* a folder under drive_dir: missing, or holding up to MaxFiles files in the
\* order os.walk reports them
Folders(subdir) ==
    {[is_dir |-> FALSE, files |-> <<>>]}
    \cup {[is_dir |-> TRUE, files |-> l] :
            l \in UNION {FileLists(subdir, n) : n \in 0..MaxFiles}}

\* tc = Text_Chunking(); tc.execute_chunking() is about to run
ChunkInit ==
    /\ google_drive_retriever = None
    /\ notion_retriever = None
    /\ query = NoQuery
    /\ pc = "Idle"
    /\ platforms = <<>>
    /\ method = None
    /\ all_results = <<>>
    /\ limited_results = <<>>
    /\ calls = <<>>
    /\ response = NoResponse
    /\ listing = NoListing
    /\ all_files = <<>>
    /\ list_pc = "Idle"
    /\ ids = <<>>
    /\ documents = <<>>
    /\ embeddings = <<>>
    /\ metadata = <<>>
    /\ drive_dir \in [presentations : Folders(<<"p">>), docs : Folders(<<"d">>)]
    /\ chunk_pc = "Start"
    /\ chunk_todo = <<>>

\* one pass of the loop body of _process_directory over file f: files that
\* are not .txt are passed over; an exception of read_text or of the chunk
\* processor is caught and the file skipped, the appends made before it stay
VisitFile(L, f, slides, loaded) ==
    IF ~EndsWithTxt(f.name) THEN L
    ELSE IF ~f.readable THEN L
    ELSE IF slides
         THEN process_slides(L, normalize(f.text), f.path, f.name, loaded)
         ELSE process_docs_from(L, f.text_chunks, 1, f.path, f.name, loaded)

\* the lists become those of L
SetLists(L) ==
    /\ ids' = L.ids
    /\ documents' = L.documents
    /\ embeddings' = L.embeddings
    /\ metadata' = L.metadata

\* chunk_slides enters _process_directory("presentations", ...): a missing
\* folder raises FileNotFoundError out of execute_chunking
chunk_slides ==
    /\ chunk_pc = "Start"
    /\ IF drive_dir.presentations.is_dir
       THEN chunk_pc' = "Slides" /\ chunk_todo' = drive_dir.presentations.files
       ELSE chunk_pc' = "Raised" /\ UNCHANGED chunk_todo
    /\ UNCHANGED <<ids, documents, embeddings, metadata, drive_dir>>
    /\ UNCHANGED <<searchVars, driveVars>>

\* the next file of the presentations folder
SlidesFile ==
    /\ chunk_pc = "Slides"
    /\ chunk_todo # <<>>
    /\ \E loaded \in BOOLEAN :
         SetLists(VisitFile(Lists, Head(chunk_todo), TRUE, loaded))
    /\ chunk_todo' = Tail(chunk_todo)
    /\ UNCHANGED <<drive_dir, chunk_pc>>
    /\ UNCHANGED <<searchVars, driveVars>>

\* chunk_slides has returned; chunk_docs enters _process_directory("docs", ...)
chunk_docs ==
    /\ chunk_pc = "Slides"
    /\ chunk_todo = <<>>
    /\ IF drive_dir.docs.is_dir
       THEN chunk_pc' = "Docs" /\ chunk_todo' = drive_dir.docs.files
       ELSE chunk_pc' = "Raised" /\ UNCHANGED chunk_todo
    /\ UNCHANGED <<ids, documents, embeddings, metadata, drive_dir>>
    /\ UNCHANGED <<searchVars, driveVars>>

\* the next file of the docs folder
DocsFile ==
    /\ chunk_pc = "Docs"
    /\ chunk_todo # <<>>
    /\ \E loaded \in BOOLEAN :
         SetLists(VisitFile(Lists, Head(chunk_todo), FALSE, loaded))
    /\ chunk_todo' = Tail(chunk_todo)
    /\ UNCHANGED <<drive_dir, chunk_pc>>
    /\ UNCHANGED <<searchVars, driveVars>>

\* chunk_docs has returned, and with it execute_chunking
ChunkingReturns ==
    /\ chunk_pc = "Docs"
    /\ chunk_todo = <<>>
    /\ chunk_pc' = "Done"
    /\ UNCHANGED <<ids, documents, embeddings, metadata, drive_dir, chunk_todo>>
    /\ UNCHANGED <<searchVars, driveVars>>

ChunkNext == chunk_slides \/ SlidesFile \/ chunk_docs \/ DocsFile \/ ChunkingReturns

ChunkSpec == ChunkInit /\ [][ChunkNext]_vars

(***************************************************************************)
(* Properties of search                                                    *)
(***************************************************************************)
\* the results the calls made so far returned, in call order
RECURSIVE Produced(_)
Produced(k) ==
    IF k = 0 THEN <<>>
    ELSE Produced(k - 1) \o (IF calls[k].raised THEN <<>> ELSE calls[k].results)

\* the position of result r in the concatenation of the per-platform lists
ProducedAt(r) ==
    LET all == Produced(Len(calls))
    IN  CHOOSE k \in 1..Len(all) : all[k].id = r.id

\* a malformed SearchQuery: empty text or a limit that is not positive
Malformed(q) == q.query = <<>> \/ q.limit <= 0

\* C1: a malformed query (empty text or limit <= 0) is rejected before any
\* _search_platform call is made and before a response is assembled; no
\* response is returned for it.
C1_MalformedRejected ==
    (pc # "Idle" /\ Malformed(query)) =>
        /\ calls = <<>>
        /\ pc \notin {"Aggregated", "Returned"}

C3_ResultsWithinLimit ==
    pc = "Returned" => Len(response.results) <= response.query.limit

\* C4: the results of a returned response are in descending score order, and
\* results of equal score are in the order of the concatenation of the
\* per-platform lists (platform-selection order, each list's order kept).
C4_SortedStable ==
    pc = "Returned" =>
        \A i, j \in 1..Len(response.results) :
            i < j =>
                LET a == response.results[i]
                    b == response.results[j]
                IN  \/ a.score > b.score
                    \/ a.score = b.score /\ ProducedAt(a) < ProducedAt(b)

\* C4 witness: a response in which two results of equal score from different
\* platforms follow a result of higher score that was produced later.
C4_Witness ==
    /\ pc = "Returned"
    /\ Len(response.results) >= 3
    /\ \E i, j \in 1..Len(response.results) :
        /\ i < j
        /\ response.results[i].score = response.results[j].score
        /\ response.results[i].platform # response.results[j].platform
    /\ \E i, j \in 1..Len(response.results) :
        /\ i < j
        /\ response.results[i].score > response.results[j].score
        /\ ProducedAt(response.results[i]) > ProducedAt(response.results[j])

\* C5: total_results of a returned response is the sum of the lengths of the
\* per-platform lists, whatever the limit, and is at least the number of
\* results in the response.
C5_TotalCountsAll ==
    pc = "Returned" =>
        /\ response.total_results = Len(Produced(Len(calls)))
        /\ response.total_results >= Len(response.results)

\* C5 witness: a response truncated by the limit, so that total_results is
\* larger than the number of results it carries.
C5_Witness ==
    /\ pc = "Returned"
    /\ Len(calls) = 2
    /\ response.results # <<>>
    /\ response.total_results > Len(response.results)
    /\ response.query.limit = Len(response.results)

\* C6: a platform whose retriever is None yields an empty list without
\* raising, and a search on a freshly constructed orchestrator (both
\* retrievers None) returns no results and total_results = 0 while reporting
\* the classified platforms and method.
C6_UnconfiguredIsEmpty ==
    /\ \A k \in 1..Len(calls) :
        (IF calls[k].platform = GOOGLE_DRIVE
         THEN google_drive_retriever = None
         ELSE notion_retriever = None)
        => (~calls[k].raised /\ calls[k].results = <<>>)
    /\ (google_drive_retriever = None /\ notion_retriever = None) =>
        /\ pc # "Raised"
        /\ pc = "Returned" =>
            /\ response.results = <<>>
            /\ response.total_results = 0
            /\ response.platforms_searched = determine_platforms(response.query)
            /\ response.method_used = determine_search_method(response.query)

\* C6 witness: a search on a fresh orchestrator returned after calling both
\* platforms.
C6_Witness ==
    /\ pc = "Returned"
    /\ google_drive_retriever = None
    /\ notion_retriever = None
    /\ Len(calls) = 2
    /\ response.platforms_searched = <<GOOGLE_DRIVE, NOTION>>
    /\ response.method_used = KEYWORD
    /\ response.results = <<>>

(***************************************************************************)
(* Properties of determine_search_method                                   *)
(***************************************************************************)
\* the text has a single or a double quote character
HasQuoteChar(text) == \E k \in 1..Len(text) : text[k] \in {"'", "\""}

\* the filters have one of the five metadata keys
HasRecognizedKey(q) ==
    /\ q.filters.given
    /\ q.filters.keys \cap {"author", "date", "owner", "modified_date", "created_date"} # {}

\* the number of whitespace-separated tokens of the text
RECURSIVE TokenCount(_)
TokenCount(text) ==
    IF text = <<>> THEN 0
    ELSE LET rest == TokenCount(Tail(text))
         IN  IF Head(text) \in {" ", "\t", "\n", "\r"} THEN rest
             ELSE IF Len(text) = 1 \/ text[2] \in {" ", "\t", "\n", "\r"}
                  THEN rest + 1 ELSE rest

\* word w is written in t from position k on
WrittenAt(t, w, k) ==
    k + Len(w) - 1 <= Len(t) /\ \A j \in 1..Len(w) : t[k + j - 1] = w[j]

\* the trimmed, lower-cased text starts with the letters of a wh-word
StartsWithWh(text) ==
    LET t == Lower(Strip(text))
    IN  \E w \in { <<"w","h","a","t">>, <<"h","o","w">>, <<"w","h","y">>,
                   <<"w","h","e","n">>, <<"w","h","e","r","e">>, <<"w","h","o">> } :
            WrittenAt(t, w, 1)

\* the trimmed text ends with a question mark
EndsWithQuestionMark(text) ==
    LET t == Strip(text) IN t # <<>> /\ t[Len(t)] = "?"

\* the lower-cased text has "explain", "describe" or "tell me about" in it
MentionsExplain(text) ==
    LET t == Lower(Strip(text))
    IN  \E w \in { <<"e","x","p","l","a","i","n">>,
                   <<"d","e","s","c","r","i","b","e">>,
                   <<"t","e","l","l"," ","m","e"," ","a","b","o","u","t">> } :
            \E k \in 1..Len(t) : WrittenAt(t, w, k)

\* C7 as stated: a text with a quote character always yields FULL_TEXT,
\* whatever the rest of the query is.
C7_QuoteAlwaysFullText ==
    (method # None /\ HasQuoteChar(query.query)) => method = FULL_TEXT

\* C7 amended: a query with no explicit method whose text has a single or
\* double quote character yields FULL_TEXT, whatever its length and filters.
C7_QuoteFullText ==
    (method # None /\ query.method = None /\ HasQuoteChar(query.query))
        => method = FULL_TEXT

\* C7 witness: FULL_TEXT for a quoted text of more than 8 tokens with a
\* metadata filter.
C7_Witness ==
    /\ method = FULL_TEXT
    /\ query.method = None
    /\ HasQuoteChar(query.query)
    /\ HasRecognizedKey(query)
    /\ TokenCount(query.query) > 8

\* C8: a query with an explicit method yields exactly that method, whatever
\* its text and filters.
C8_ExplicitMethod ==
    (method # None /\ query.method # None) => method = query.method

\* C8 witness: an explicit KEYWORD returned for a quoted, question-like text
\* with a metadata filter.
C8_Witness ==
    /\ method = KEYWORD
    /\ query.method = KEYWORD
    /\ HasQuoteChar(query.query)
    /\ EndsWithQuestionMark(query.query)
    /\ HasRecognizedKey(query)

\* C9 as stated: a query with no explicit method whose filters have a
\* recognized metadata key yields METADATA.
C9_FilterAlwaysMetadata ==
    (method # None /\ query.method = None /\ HasRecognizedKey(query))
        => method = METADATA

\* C9 amended: a query with no explicit method and no quote character in its
\* text whose filters have a recognized metadata key yields METADATA, also
\* when the text is a question or has more than 8 tokens.
C9_FilterMetadata ==
    (method # None /\ query.method = None /\ ~HasQuoteChar(query.query)
        /\ HasRecognizedKey(query))
        => method = METADATA

\* C9 witness: METADATA for a text that starts with a wh-word and has more
\* than 8 tokens.
C9_Witness ==
    /\ method = METADATA
    /\ query.method = None
    /\ HasRecognizedKey(query)
    /\ StartsWithWh(query.query)
    /\ TokenCount(query.query) > 8

\* C10: a query with no explicit method, no quote character and no
\* recognized metadata key whose trimmed text starts with a wh-word, ends
\* with '?' or mentions explain / describe / tell me about (in any case)
\* yields SEMANTIC.
C10_QuestionSemantic ==
    (method # None /\ query.method = None /\ ~HasQuoteChar(query.query)
        /\ ~HasRecognizedKey(query)
        /\ (StartsWithWh(query.query) \/ EndsWithQuestionMark(query.query)
            \/ MentionsExplain(query.query)))
        => method = SEMANTIC

\* C10 witness: SEMANTIC for a short text that only starts with a capitalized
\* wh-word after leading whitespace, with filters that have no recognized key.
C10_Witness ==
    /\ method = SEMANTIC
    /\ query.method = None
    /\ query.filters.keys = {"tag"}
    /\ StartsWithWh(query.query)
    /\ query.query[1] = " "
    /\ ~EndsWithQuestionMark(query.query)
    /\ ~MentionsExplain(query.query)
    /\ TokenCount(query.query) <= 8

\* the first whitespace-separated word of the trimmed, lower-cased text
FirstWord(text) ==
    LET t == Lower(Strip(text))
        spaces == {k \in 1..Len(t) : t[k] \in {" ", "\t", "\n", "\r"}}
    IN  IF spaces = {} THEN t
        ELSE SubSeq(t, 1, (CHOOSE k \in spaces : \A j \in spaces : k <= j) - 1)

\* the first word of the text is one of what, how, why, when, where, who
FirstWordIsWh(text) ==
    FirstWord(text) \in { <<"w","h","a","t">>, <<"h","o","w">>, <<"w","h","y">>,
                          <<"w","h","e","n">>, <<"w","h","e","r","e">>,
                          <<"w","h","o">> }

\* C11: a query with no explicit method, no quote character, no recognized
\* metadata key and a non-interrogative text (first word not a wh-word, no
\* final '?', no explain / describe / tell me about) yields SEMANTIC when the
\* text has more than 8 tokens and KEYWORD otherwise.
C11_LengthDecides ==
    (method # None /\ query.method = None /\ ~HasQuoteChar(query.query)
        /\ ~HasRecognizedKey(query)
        /\ ~FirstWordIsWh(query.query)
        /\ ~EndsWithQuestionMark(query.query)
        /\ ~MentionsExplain(query.query))
        => method = (IF TokenCount(query.query) > 8 THEN SEMANTIC ELSE KEYWORD)

(***************************************************************************)
(* Properties of determine_platforms                                       *)
(***************************************************************************)
\* the lower-cased text has one of the words in it
MentionsAny(text, words) ==
    \E w \in words : \E k \in 1..Len(text) : WrittenAt(Lower(text), w, k)

\* the text mentions a drive term
MentionsDrive(text) ==
    MentionsAny(text, { <<"d","r","i","v","e">>, <<"d","o","c","s">>,
                        <<"s","h","e","e","t","s">>, <<"s","l","i","d","e","s">>,
                        <<"d","o","c","u","m","e","n","t">> })

\* the text mentions a workspace term
MentionsWorkspace(text) ==
    MentionsAny(text, { <<"n","o","t","i","o","n">>, <<"p","a","g","e">>,
                        <<"d","a","t","a","b","a","s","e">>,
                        <<"w","o","r","k","s","p","a","c","e">> })

\* the platforms of a sequence
PlatformsIn(l) == {l[k] : k \in 1..Len(l)}

\* C12: a query with an explicit platform yields exactly the one-element
\* collection with that platform, whatever its text mentions.
C12_ExplicitPlatform ==
    (pc = "Classified" /\ query.platform # None) => platforms = <<query.platform>>

\* C12 witness: an explicit NOTION returned for a text that mentions only
\* drive terms.
C12_Witness ==
    /\ pc = "Classified"
    /\ query.platform = NOTION
    /\ MentionsDrive(query.query)
    /\ ~MentionsWorkspace(query.query)
    /\ platforms = <<NOTION>>

\* C13: a query with no explicit platform yields the drive platform alone
\* when its lower-cased text has only drive terms in it, the workspace
\* platform alone when it has only workspace terms in it, and both platforms
\* when it has terms of both sets or of neither.
C13_HintedPlatforms ==
    (pc = "Classified" /\ query.platform = None) =>
        LET drive == MentionsDrive(query.query)
            workspace == MentionsWorkspace(query.query)
        IN  IF drive /\ ~workspace THEN platforms = <<GOOGLE_DRIVE>>
            ELSE IF workspace /\ ~drive THEN platforms = <<NOTION>>
            ELSE Len(platforms) = 2 /\ PlatformsIn(platforms) = {GOOGLE_DRIVE, NOTION}

\* C13 witness: the drive platform alone for a text whose only hint is a
\* capitalized drive term.
C13_Witness ==
    /\ pc = "Classified"
    /\ query.platform = None
    /\ query.query = <<"D","r","i","v","e">> \o <<" ">>
    /\ platforms = <<GOOGLE_DRIVE>>

(***************************************************************************)
(* Properties of the search pipeline                                       *)
(***************************************************************************)
\* the call has left the Received phase
Classified == pc \in {"Classified", "Dispatched", "Aggregated", "Returned", "Raised"}

\* C14: determine_platforms yields a non-empty collection without duplicate
\* platforms, so platforms_searched of a returned response is never empty.
C14_PlatformsNonEmpty ==
    /\ Classified =>
        /\ platforms # <<>>
        /\ \A i, j \in 1..Len(platforms) : i # j => platforms[i] # platforms[j]
    /\ pc = "Returned" => response.platforms_searched # <<>>

\* C14 witness: a response to a query without explicit platform that names
\* both platforms.
C14_Witness ==
    /\ pc = "Returned"
    /\ query.platform = None
    /\ Len(response.platforms_searched) = 2

\* a step of a running search keeps the query and the retriever references
SearchKeepsArguments ==
    pc \in {"Received", "Classified", "Dispatched", "Aggregated"} =>
        /\ query' = query
        /\ google_drive_retriever' = google_drive_retriever
        /\ notion_retriever' = notion_retriever

\* C15: a returned response carries determine_platforms(q), 
\* determine_search_method(q) and q itself, and while search runs the query
\* and the two retriever references do not change.
C15_ResponseEchoesQuery ==
    /\ [](pc = "Returned" =>
            /\ response.platforms_searched = determine_platforms(query)
            /\ response.method_used = determine_search_method(query)
            /\ response.query = query)
    /\ [][SearchKeepsArguments]_vars

\* C15 witness: a response with a resolved method and a hinted platform that
\* the query did not give.
C15_Witness ==
    /\ pc = "Returned"
    /\ query.method = None
    /\ query.platform = None
    /\ response.method_used = SEMANTIC
    /\ response.platforms_searched = <<NOTION>>

\* C16: the calls to all selected platforms are issued together, before any
\* of them has returned, and the sort waits for all of them.
C16_ConcurrentDispatch ==
    /\ (\E k \in 1..Len(calls) : calls[k].done) => Len(calls) = Len(platforms)
    /\ pc \in {"Aggregated", "Returned"} => \A k \in 1..Len(calls) : calls[k].done

C18_OneCallPerPlatform ==
    /\ Len(calls) <= Len(determine_platforms(query))
    /\ \A k \in 1..Len(calls) :
        /\ calls[k].platform = determine_platforms(query)[k]
        /\ calls[k].query = query
        /\ calls[k].method = determine_search_method(query)
    /\ pc \in {"Aggregated", "Returned"} =>
        Len(calls) = Len(determine_platforms(query))

\* C18 witness: a response with fewer results than the limit after one call
\* to each of two platforms.
C18_Witness ==
    /\ pc = "Returned"
    /\ Len(calls) = 2
    /\ calls[1].platform = GOOGLE_DRIVE
    /\ calls[2].platform = NOTION
    /\ response.total_results < query.limit

\* the place of a phase in the request lifecycle
PhaseRank(phase) ==
    CASE phase = "Received" -> 1
      [] phase = "Classified" -> 2
      [] phase = "Dispatched" -> 3
      [] phase = "Aggregated" -> 4
      [] phase = "Returned" -> 5
      [] OTHER -> 0

\* a step that changes the phase of a running request goes to the next phase,
\* or leaves Dispatched by an exception
PhaseAdvances ==
    (pc \in {"Received", "Classified", "Dispatched", "Aggregated"} /\ pc' # pc) =>
        \/ PhaseRank(pc') = PhaseRank(pc) + 1
        \/ pc = "Dispatched" /\ pc' = "Raised"

\* C19: a request goes from each phase only to the next one (Received,
\* Classified, Dispatched, Aggregated, Returned), or out of Dispatched by an
\* exception; platforms and method are set before the first platform call,
\* and every platform call is over before the sort.
C19_LinearPhases ==
    /\ [](calls # <<>> => (Classified /\ pc # "Classified"
                           /\ platforms # <<>> /\ method # None))
    /\ [](pc \in {"Aggregated", "Returned"} =>
            /\ Len(calls) = Len(platforms)
            /\ \A k \in 1..Len(calls) : calls[k].done)
    /\ [][PhaseAdvances]_vars

\* C19 witness: a request that reached Returned after a call to each of two
\* configured retrievers.
C19_Witness ==
    /\ pc = "Returned"
    /\ Len(calls) = 2
    /\ google_drive_retriever # None
    /\ notion_retriever # None
    /\ response.results # <<>>

(***************************************************************************)
(* Properties of list_files_in_folder                                      *)
(***************************************************************************)
\* the file with this id
FileOf(id) == CHOOSE f \in Range(Drive) : f.id = id

\* file f is in folder `top` or in a subfolder below it, and no folder on the
\* way from `top` down to f failed to list
RECURSIVE ListedUnder(_, _, _)
ListedUnder(f, top, failing) ==
    /\ f.parent # None
    /\ \/ f.parent = top
       \/ /\ f.parent \notin failing
          /\ ListedUnder(FileOf(f.parent), top, failing)

\* file f passes the file_types filter
PassesFilter(f, file_types) ==
    file_types = <<>> \/ \E k \in 1..Len(file_types) : file_types[k] = f.mimeType

\* C20: a recursive listing of a folder returns the files of the folder and
\* of every subfolder below it, whatever file_types is, and an HttpError for
\* one subfolder costs only the files below that subfolder.
C20_RecursiveListsSubfolders ==
    (list_pc = "Returned" /\ listing.recursive /\ listing.folder_id # None
        /\ listing.folder_id \notin listing.failing) =>
        \A f \in Range(Drive) :
            (ListedUnder(f, listing.folder_id, listing.failing)
                /\ PassesFilter(f, listing.file_types))
            => f \in Range(all_files)

(***************************************************************************)
(* Properties of Text_Chunking                                             *)
(***************************************************************************)
\* the files of both folders
ChunkFiles == Range(drive_dir.presentations.files) \cup Range(drive_dir.docs.files)

\* the chunks of file f, in order, empty ones included: the stripped slide
\* sections of a presentation, the splitter's chunks of a document
ChunksOf(f) ==
    IF f \in Range(drive_dir.presentations.files)
    THEN LET sections == ReSplit(normalize(f.text))
         IN  [i \in 1..Len(sections) |-> Strip(sections[i])]
    ELSE f.text_chunks

\* ids[k] names chunk i of file f
IdNames(k, f, i) == ids[k] = f.path \o <<":">> \o Str(i)

\* C21: the four lists have the same length, and position k of each is about
\* one chunk: ids[k] is "<path>:<i>" for a chunk i of a file, documents[k] is
\* the text of that chunk alone, and metadata[k] carries the same path and
\* index, with the index below chunk_total.
C21_ParallelLists ==
    /\ Len(ids) = Len(documents)
    /\ Len(ids) = Len(embeddings)
    /\ Len(ids) = Len(metadata)
    /\ \A k \in 1..Len(ids) :
         \E f \in ChunkFiles : \E i \in 0..(Len(ChunksOf(f)) - 1) :
            /\ IdNames(k, f, i)
            /\ k <= Len(documents) =>
                 /\ documents[k].type = "str"
                 /\ documents[k].str = ChunksOf(f)[i + 1]
            /\ k <= Len(metadata) =>
                 /\ metadata[k].file_path = f.path
                 /\ metadata[k].chunk_index = i
                 /\ metadata[k].chunk_index < metadata[k].chunk_total

====
